---- MODULE Spec2Model ----
(***************************************************************************)
(* IT asset management backend: the equipment and users collections, the   *)
(* in-memory reset-token map and the assignment notifier.  The repository  *)
(* holds two applications over the same collections: the router            *)
(* application (main.py with backend/app/routes/*.py) and the single-file  *)
(* port (backend/app/server.py).  One deployment runs one of them; the     *)
(* variable app says which.                                                 *)
(***************************************************************************)
EXTENDS Integers, Sequences, FiniteSets, TLC

VARIABLES app, now, users, nextUid, issued, equipment, nextOid, pending, bg,
          mailbox, reset_tokens, nextToken, last

vars == <<app, now, users, nextUid, issued, equipment, nextOid, pending, bg,
          mailbox, reset_tokens, nextToken, last>>

(***************************************************************************)
(* Bounds of the model.                                                    *)
(***************************************************************************)
MaxEquip == 2
MaxBg == 1
MaxTokens == 2
MaxTime == 3
MaxUsers == 4
MaxPending == 2

(***************************************************************************)
(* Program constants (hours).                                              *)
(***************************************************************************)
JWT_EXPIRATION_HOURS == 2
RESET_EXPIRY_HOURS == 1

(***************************************************************************)
(* Values.  A document field that is missing reads as Absent; a field      *)
(* stored as JSON null is Null.  Python's dict.get gives None for both.    *)
(***************************************************************************)
Absent == "<absent>"
Null == "<null>"
BTrue == "true"
BFalse == "false"

Apps == {"routes", "server"}
Roles == {"Admin", "Editor", "Viewer"}
Statuses == {"In Use", "In Stock", "Damaged", "E-Waste", "Removed"}

\* Python truthiness of a field value fetched with dict.get
Truthy(v) == v \notin {Absent, Null, "", BFalse}

\* dict.get(key): a missing key and a stored null both give None
Get(v) == IF v = Absent THEN Null ELSE v

\* a queue without its i-th element
RemoveAt(q, i) == [j \in 1..(Len(q) - 1) |-> IF j < i THEN q[j] ELSE q[j + 1]]

(***************************************************************************)
(* Identifiers.  An ObjectId is a number n >= 1; the 24-hex string that    *)
(* spells it is the url code n; the url code 0 is a string that is no      *)
(* valid ObjectId.  A stored _id is an ObjectId (t = "oid") or, when a     *)
(* client of server.py put "_id" in the body, a string (t = "str").        *)
(***************************************************************************)
Oid(n) == [t |-> "oid", v |-> n]
StrId(u) == [t |-> "str", v |-> u]
NoId == [t |-> "none", v |-> 0]

\* bson.ObjectId.is_valid on a url string
IsValidObjectId(u) == u >= 1

(***************************************************************************)
(* Session tokens: what jwt.encode signed.  A request carries no token, a  *)
(* string that does not verify, or a token the application issued.  The id *)
(* claim is str(user["_id"]), the url code of the user's ObjectId.         *)
(***************************************************************************)
NoToken == [kind |-> "none", id |-> 0, email |-> "", role |-> "", exp |-> 0]
BadToken == [kind |-> "bad", id |-> 0, email |-> "", role |-> "", exp |-> 0]

create_jwt_token(u, t) ==
    [kind |-> "jwt", id |-> u._id.v, email |-> u.email, role |-> u.role,
     exp |-> t + JWT_EXPIRATION_HOURS]

\* jwt.decode's expiry check: PyJWT (router application) rejects exp <= now,
\* python-jose (server.py) rejects exp < now
Expired(tok) == IF app = "routes" THEN tok.exp <= now ELSE tok.exp < now

AuthCode_mut_ChecksUser(tok) ==
    IF tok.kind \in {"none", "bad"} THEN 401
    ELSE IF Expired(tok) THEN 401
    ELSE IF \A x \in users : x._id # Oid(tok.id) \/ x.role # tok.role THEN 401
    ELSE 0

AuthCode_mut_NoExpiry(tok) == IF tok.kind \in {"none", "bad"} THEN 401 ELSE 0

\* verify_auth / verify_jwt_token / get_current_user: 0 when the token yields
\* a user, else 401
AuthCode(tok) ==
    IF tok.kind = "none" THEN 401
    ELSE IF tok.kind = "bad" THEN 401
    ELSE IF Expired(tok) THEN 401
    ELSE 0

RoleCode_mut_AnyRole(tok, allowed) == 0

\* check_role / require_role / check_admin
RoleCode(tok, allowed) == IF tok.role \in allowed THEN 0 ELSE 403

\* the first failing gate of a handler, 0 when the request passes both
Gate(tok, allowed) ==
    IF AuthCode(tok) # 0 THEN AuthCode(tok) ELSE RoleCode(tok, allowed)

RequestTokens == {NoToken, BadToken} \cup issued

(***************************************************************************)
(* Equipment documents.                                                    *)
(***************************************************************************)
NoAssetId == [prefix |-> <<>>, seq |-> <<>>, suffix |-> Absent]

EqFields == {"category", "status", "serialNumber", "damageDescription",
             "assigneeName", "employeeEmail", "location", "isDeleted"}

\* a request body: every field it does not carry is Absent
EmptyBody == [f \in EqFields |-> Absent]

NoDoc == [_id |-> NoId, assetId |-> NoAssetId, createdAt |-> -1, updatedAt |-> -1,
          f |-> EmptyBody]

\* the characters of the category strings requests carry
Chars(c) ==
    CASE c = "Lap" -> <<"L", "a", "p">>
      [] c = "laptop" -> <<"l", "a", "p", "t", "o", "p">>
      [] c = "Mon" -> <<"M", "o", "n">>
      [] c = "PC" -> <<"P", "C">>
      [] OTHER -> <<>>

\* str.upper on one character
upper(ch) ==
    CASE ch = "a" -> "A"
      [] ch = "l" -> "L"
      [] ch = "n" -> "N"
      [] ch = "o" -> "O"
      [] ch = "p" -> "P"
      [] ch = "t" -> "T"
      [] OTHER -> ch

CategoryPrefix_mut_NoUpper(c) ==
    IF Truthy(c)
    THEN [i \in 1..(IF Len(Chars(c)) < 3 THEN Len(Chars(c)) ELSE 3) |-> Chars(c)[i]]
    ELSE <<"O", "T", "H">>

\* category[:3].upper() if category else "OTH"
CategoryPrefix(c) ==
    IF Truthy(c)
    THEN [i \in 1..(IF Len(Chars(c)) < 3 THEN Len(Chars(c)) ELSE 3) |-> upper(Chars(c)[i])]
    ELSE <<"O", "T", "H">>

\* str(n): the decimal digits of n
RECURSIVE str(_)
str(n) == IF n < 10 THEN <<n>> ELSE Append(str(n \div 10), n % 10)

\* zfill(width): zeros on the left up to the width
RECURSIVE zfill(_, _)
zfill(ds, width) == IF Len(ds) >= width THEN ds ELSE zfill(<<0>> \o ds, width)

\* count_documents({"category": c}): deleted records are counted too
CountCategory(c) == Cardinality({d \in equipment : d.f.category = c})

\* find_one({"serialNumber": s})
FindBySerial(s) == {d \in equipment : d.f.serialNumber = s}

\* {"isDeleted": {"$ne": True}}
NotDeleted(d) == d.f.isDeleted # BTrue

\* find_one({"_id": ObjectId(u)}) of the router application
FindByObjectId(u) == {d \in equipment : d._id = Oid(u)}

\* find_one({"_id": item_id}) of server.py: the filter is the url string
FindByString(u) == {d \in equipment : d._id = StrId(u)}

SetFields_mut_Replace(d, body) == [d EXCEPT !.f = body]

\* {"$set": update}: the fields the body carries replace the stored ones
SetFields(d, body) ==
    [d EXCEPT !.f = [k \in EqFields |-> IF body[k] # Absent THEN body[k] ELSE d.f[k]]]

(***************************************************************************)
(* The unique indexes ensure_indexes creates at the router application's   *)
(* startup: assetId (unique) and serialNumber (unique, sparse: a document  *)
(* without the field is not indexed, one with null is).  server.py creates *)
(* none.  coll is the collection after the write that is being tried.      *)
(***************************************************************************)
IndexesOk_mut_NoSerialIndex(coll) ==
    \A d1, d2 \in coll : (d1 # d2) => d1.assetId # d2.assetId

IndexesOk(coll) ==
    \A d1, d2 \in coll :
        (d1 # d2) =>
            /\ d1.assetId # d2.assetId
            /\ (d1.f.serialNumber # Absent => d1.f.serialNumber # d2.f.serialNumber)

\* the primary key
IdsOk(coll) == \A d1, d2 \in coll : (d1 # d2) => d1._id # d2._id

(***************************************************************************)
(* The record of the last request: what was asked and what was answered.   *)
(***************************************************************************)
NoLast == [op |-> "none", code |-> 0, caller |-> NoToken, id |-> 0, body |-> EmptyBody,
           orig |-> NoDoc, result |-> NoDoc, fired |-> FALSE,
           email |-> "", token |-> 0]

Answer(op, code) == [NoLast EXCEPT !.op = op, !.code = code]

\* the answer to a request that carried the session token tok
Reply(tok, op, code) == [Answer(op, code) EXCEPT !.caller = tok]

(***************************************************************************)
(* Router application, routes/equipment.py.  The date fields (warrantyInfo,*)
(* purchaseDate) are not part of the modelled document.                    *)
(***************************************************************************)
\* the document create_equipment builds: the fields the request set, the
\* generated assetId, isDeleted = False and the two timestamps
EquipmentDoc(body, suffix, count) ==
    [_id |-> Oid(nextOid),
     assetId |-> [prefix |-> CategoryPrefix(body.category),
                  seq |-> zfill(str(count + 1), 3),
                  suffix |-> suffix],
     createdAt |-> now, updatedAt |-> now,
     f |-> [body EXCEPT !.isDeleted = BFalse]]

NewEquipmentDoc(body, suffix) == EquipmentDoc(body, suffix, CountCategory(body.category))

\* "Check for duplicate serial number": the request is refused with 400
DuplicateSerial(body) ==
    /\ Truthy(body.serialNumber)
    /\ FindBySerial(body.serialNumber) # {}

RoutesCreateEquipment(tok, body, suffix) ==
    /\ app = "routes"
    /\ LET gate == Gate(tok, {"Admin", "Editor"})
           doc == NewEquipmentDoc(body, suffix)
       IN  IF gate # 0
           THEN /\ last' = Reply(tok, "create", gate)
                /\ UNCHANGED <<equipment, nextOid>>
           ELSE IF DuplicateSerial(body)
           THEN /\ last' = [Reply(tok, "create", 400) EXCEPT !.body = body]
                /\ UNCHANGED <<equipment, nextOid>>
           ELSE IF ~IndexesOk(equipment \cup {doc})
           THEN \* insert_one raises DuplicateKeyError, which nothing catches
                /\ last' = [Reply(tok, "create", 500) EXCEPT !.body = body]
                /\ UNCHANGED <<equipment, nextOid>>
           ELSE /\ Cardinality(equipment) < MaxEquip
                /\ equipment' = equipment \cup {doc}
                /\ nextOid' = nextOid + 1
                /\ last' = [Reply(tok, "create", 201) EXCEPT
                               !.body = body, !.id = nextOid, !.result = doc]
    /\ UNCHANGED <<app, now, users, nextUid, issued, pending, bg, mailbox, reset_tokens, nextToken>>

\* "Clear damage description if status is not Damaged", then updatedAt
UpdateData(body) ==
    IF Truthy(body.status) /\ body.status # "Damaged"
    THEN [body EXCEPT !.damageDescription = Null]
    ELSE body

RoutesUpdateEquipment(tok, u, body) ==
    /\ app = "routes"
    /\ LET gate == Gate(tok, {"Admin", "Editor"})
           found == FindByObjectId(u)
       IN  IF gate # 0
           THEN /\ last' = Reply(tok, "update", gate)
                /\ UNCHANGED equipment
           ELSE IF ~IsValidObjectId(u)
           THEN /\ last' = [Reply(tok, "update", 400) EXCEPT !.id = u, !.body = body]
                /\ UNCHANGED equipment
           ELSE IF found = {}
           THEN /\ last' = [Reply(tok, "update", 404) EXCEPT !.id = u, !.body = body]
                /\ UNCHANGED equipment
           ELSE LET orig == CHOOSE d \in found : TRUE
                    \* update_data["updatedAt"] = utcnow(): the write always
                    \* changes the document, so modified_count is 1
                    new == [SetFields(orig, UpdateData(body)) EXCEPT !.updatedAt = now]
                    coll == (equipment \ {orig}) \cup {new}
                IN  IF ~IndexesOk(coll)
                    THEN \* update_one raises DuplicateKeyError
                         /\ last' = [Reply(tok, "update", 500) EXCEPT
                                        !.id = u, !.body = body, !.orig = orig]
                         /\ UNCHANGED equipment
                    ELSE /\ equipment' = coll
                         /\ last' = [Reply(tok, "update", 200) EXCEPT
                                        !.id = u, !.body = body, !.orig = orig,
                                        !.result = new]
    /\ UNCHANGED <<app, now, users, nextUid, issued, pending, nextOid, bg, mailbox, reset_tokens, nextToken>>

RoutesDeleteEquipment(tok, u) ==
    /\ app = "routes"
    /\ LET gate == Gate(tok, {"Admin"})
           found == FindByObjectId(u)
       IN  IF gate # 0
           THEN /\ last' = Reply(tok, "delete", gate)
                /\ UNCHANGED equipment
           ELSE IF ~IsValidObjectId(u)
           THEN /\ last' = [Reply(tok, "delete", 400) EXCEPT !.id = u]
                /\ UNCHANGED equipment
           ELSE IF found = {}
           THEN \* modified_count == 0
                /\ last' = [Reply(tok, "delete", 404) EXCEPT !.id = u]
                /\ UNCHANGED equipment
           ELSE LET orig == CHOOSE d \in found : TRUE
                    new == [orig EXCEPT !.f.isDeleted = BTrue, !.updatedAt = now]
                IN  /\ equipment' = (equipment \ {orig}) \cup {new}
                    /\ last' = [Reply(tok, "delete", 200) EXCEPT
                                   !.id = u, !.orig = orig, !.result = new]
    /\ UNCHANGED <<app, now, users, nextUid, issued, pending, nextOid, bg, mailbox, reset_tokens, nextToken>>

\* get_all_equipment: find({"isDeleted": {"$ne": True}})
get_all_equipment_mut_NoFilter == equipment

get_all_equipment == {d \in equipment : NotDeleted(d)}

\* get_category_count: count_documents({"category": c, "isDeleted": {"$ne": True}})
get_category_count(c) ==
    Cardinality({d \in equipment : d.f.category = c /\ NotDeleted(d)})

\* get_removed_equipment: find({"status": "Removed", "isDeleted": {"$ne": True}})
get_removed_equipment == {d \in equipment : d.f.status = "Removed" /\ NotDeleted(d)}

\* get_equipment_summary: six count_documents
get_equipment_summary_mut_RemovedNotDeleted ==
    [totalAssets |-> Cardinality({d \in equipment : NotDeleted(d)}),
     inUse |-> Cardinality({d \in equipment : d.f.status = "In Use" /\ NotDeleted(d)}),
     inStock |-> Cardinality({d \in equipment : d.f.status = "In Stock" /\ NotDeleted(d)}),
     damaged |-> Cardinality({d \in equipment : d.f.status = "Damaged" /\ NotDeleted(d)}),
     eWaste |-> Cardinality({d \in equipment : d.f.status = "E-Waste" /\ NotDeleted(d)}),
     removed |-> Cardinality({d \in equipment : d.f.status = "Removed" /\ NotDeleted(d)})]

get_equipment_summary ==
    [totalAssets |-> Cardinality({d \in equipment : NotDeleted(d)}),
     inUse |-> Cardinality({d \in equipment : d.f.status = "In Use" /\ NotDeleted(d)}),
     inStock |-> Cardinality({d \in equipment : d.f.status = "In Stock" /\ NotDeleted(d)}),
     damaged |-> Cardinality({d \in equipment : d.f.status = "Damaged" /\ NotDeleted(d)}),
     eWaste |-> Cardinality({d \in equipment : d.f.status = "E-Waste" /\ NotDeleted(d)}),
     removed |-> Cardinality({d \in equipment : d.f.status = "Removed"})]

(***************************************************************************)
(* create_equipment as the event loop runs it: the handler gives up control*)
(* at each await, so requests interleave between the count, the serial     *)
(* lookup and the insert.  pending holds the requests that are past the    *)
(* gate and not yet answered.                                              *)
(***************************************************************************)
\* verify_auth, check_role, then count_documents
CreateCount(tok, body, suffix) ==
    /\ app = "routes"
    /\ LET gate == Gate(tok, {"Admin", "Editor"})
       IN  IF gate # 0
           THEN /\ last' = Reply(tok, "create", gate)
                /\ UNCHANGED pending
           ELSE /\ Len(pending) < MaxPending
                /\ pending' = Append(pending,
                                     [tok |-> tok, body |-> body, suffix |-> suffix,
                                      count |-> CountCategory(body.category),
                                      pc |-> "counted"])
                /\ UNCHANGED last
    /\ UNCHANGED <<app, now, users, nextUid, issued, equipment, nextOid, bg, mailbox,
                   reset_tokens, nextToken>>

\* the serial lookup of the i-th request in flight
CreateCheckSerial(i) ==
    /\ i \in 1..Len(pending)
    /\ pending[i].pc = "counted"
    /\ IF DuplicateSerial(pending[i].body)
       THEN /\ last' = [Reply(pending[i].tok, "create", 400) EXCEPT
                           !.body = pending[i].body]
            /\ pending' = RemoveAt(pending, i)
       ELSE /\ pending' = [pending EXCEPT ![i].pc = "checked"]
            /\ UNCHANGED last
    /\ UNCHANGED <<app, now, users, nextUid, issued, equipment, nextOid, bg, mailbox,
                   reset_tokens, nextToken>>

\* insert_one of the i-th request in flight, and the response
CreateInsert(i) ==
    /\ i \in 1..Len(pending)
    /\ pending[i].pc = "checked"
    /\ LET p == pending[i]
           doc == EquipmentDoc(p.body, p.suffix, p.count)
       IN  IF ~IndexesOk(equipment \cup {doc})
           THEN \* insert_one raises DuplicateKeyError, which nothing catches
                /\ last' = [Reply(p.tok, "create", 500) EXCEPT !.body = p.body]
                /\ UNCHANGED <<equipment, nextOid>>
           ELSE /\ Cardinality(equipment) < MaxEquip
                /\ equipment' = equipment \cup {doc}
                /\ nextOid' = nextOid + 1
                /\ last' = [Reply(p.tok, "create", 201) EXCEPT
                               !.body = p.body, !.id = nextOid, !.result = doc]
    /\ pending' = RemoveAt(pending, i)
    /\ UNCHANGED <<app, now, users, nextUid, issued, bg, mailbox, reset_tokens, nextToken>>

(***************************************************************************)
(* The single-file port, server.py.  Its equipment handlers take the body  *)
(* as a plain dict: nothing is validated, defaulted or generated, and a    *)
(* client may name the document's "_id" (cid; Absent when it does not).    *)
(***************************************************************************)
ServerCreateEquipment(tok, body, cid) ==
    /\ app = "server"
    /\ LET gate == Gate(tok, {"Admin", "Editor"})
           doc == [_id |-> IF cid = -1 THEN Oid(nextOid) ELSE StrId(cid),
                   assetId |-> NoAssetId, createdAt |-> now, updatedAt |-> -1,
                   f |-> body]
       IN  IF gate # 0
           THEN /\ last' = Reply(tok, "create", gate)
                /\ UNCHANGED <<equipment, nextOid>>
           ELSE IF ~IdsOk(equipment \cup {doc})
           THEN \* insert_one raises DuplicateKeyError on the primary key
                /\ last' = [Reply(tok, "create", 500) EXCEPT !.body = body]
                /\ UNCHANGED <<equipment, nextOid>>
           ELSE /\ Cardinality(equipment) < MaxEquip
                /\ equipment' = equipment \cup {doc}
                /\ nextOid' = IF cid = -1 THEN nextOid + 1 ELSE nextOid
                /\ last' = [Reply(tok, "create", 200) EXCEPT
                               !.body = body, !.id = cid, !.result = doc]
    /\ UNCHANGED <<app, now, users, nextUid, issued, pending, bg, mailbox, reset_tokens, nextToken>>

\* is_new_assignment, over the record read before the write and the body
is_new_assignment_mut_LevelTriggered(orig, update) ==
    /\ Get(update.status) = "In Use"
    /\ Truthy(update.assigneeName)
    /\ Truthy(update.employeeEmail)

is_new_assignment_mut_ReadsAfterWrite(orig, update) ==
    /\ Get(update.status) = "In Use"
    /\ Truthy(update.assigneeName)
    /\ Truthy(update.employeeEmail)
    /\ \/ Get(SetFields(orig, update).f.status) # "In Use"
       \/ Get(SetFields(orig, update).f.assigneeName) # Get(update.assigneeName)

is_new_assignment(orig, update) ==
    /\ Get(update.status) = "In Use"
    /\ Truthy(update.assigneeName)
    /\ Truthy(update.employeeEmail)
    /\ \/ Get(orig.f.status) # "In Use"
       \/ Get(orig.f.assigneeName) # Get(update.assigneeName)

\* what bg_task closes over: the updated record and the assignee fields
BgTask(updated, update) ==
    [doc |-> updated._id, to |-> update.employeeEmail,
     assigneeName |-> update.assigneeName]

ServerUpdateEquipment(tok, u, body) ==
    /\ app = "server"
    /\ LET gate == Gate(tok, {"Admin", "Editor"})
           found == FindByString(u)
       IN  IF gate # 0
           THEN /\ last' = Reply(tok, "update", gate)
                /\ UNCHANGED <<equipment, bg>>
           ELSE IF found = {}
           THEN /\ last' = [Reply(tok, "update", 404) EXCEPT !.id = u, !.body = body]
                /\ UNCHANGED <<equipment, bg>>
           ELSE LET orig == CHOOSE d \in found : TRUE
                    updated == SetFields(orig, body)
                    fires == is_new_assignment(orig, body)
                IN  /\ fires => Len(bg) < MaxBg
                    /\ equipment' = (equipment \ {orig}) \cup {updated}
                    /\ bg' = IF fires THEN Append(bg, BgTask(updated, body)) ELSE bg
                    /\ last' = [Reply(tok, "update", 200) EXCEPT
                                   !.id = u, !.body = body, !.orig = orig,
                                   !.result = updated, !.fired = fires]
    /\ UNCHANGED <<app, now, users, nextUid, issued, pending, nextOid, mailbox, reset_tokens, nextToken>>

ServerDeleteEquipment(tok, u) ==
    /\ app = "server"
    /\ LET gate == Gate(tok, {"Admin"})
           found == FindByString(u)
       IN  IF gate # 0
           THEN /\ last' = Reply(tok, "delete", gate)
                /\ UNCHANGED equipment
           ELSE \* the result of update_one is not looked at
                /\ equipment' = {IF d \in found THEN [d EXCEPT !.f.isDeleted = BTrue]
                                 ELSE d : d \in equipment}
                /\ last' = [Reply(tok, "delete", 200) EXCEPT !.id = u]
    /\ UNCHANGED <<app, now, users, nextUid, issued, pending, nextOid, bg, mailbox, reset_tokens, nextToken>>

(***************************************************************************)
(* The background task of one firing: render the PDF, send it, remove the  *)
(* file.  Every exception is swallowed inside bg_task; the task runs after *)
(* the response of its request, once.                                      *)
(***************************************************************************)
BgOutcomes == {"sent", "pdf_error", "smtp_error"}

bg_task_mut_RollsBack(i, outcome) ==
    /\ i \in 1..Len(bg)
    /\ bg' = RemoveAt(bg, i)
    /\ mailbox' = IF outcome = "sent" THEN mailbox \cup {bg[i].to} ELSE mailbox
    /\ equipment' = IF outcome = "sent" THEN equipment
                    ELSE {IF d._id = bg[i].doc THEN [d EXCEPT !.f.status = "In Stock"]
                          ELSE d : d \in equipment}
    /\ UNCHANGED <<app, now, users, nextUid, issued, pending, nextOid, reset_tokens, nextToken, last>>

bg_task(i, outcome) ==
    /\ i \in 1..Len(bg)
    /\ bg' = RemoveAt(bg, i)
    /\ mailbox' = IF outcome = "sent" THEN mailbox \cup {bg[i].to} ELSE mailbox
    /\ UNCHANGED <<app, now, users, nextUid, issued, pending, equipment, nextOid, reset_tokens, nextToken, last>>

(***************************************************************************)
(* update_equipment of server.py as the event loop runs it: the handler    *)
(* gives up control at await find_one (orig), await update_one and await   *)
(* find_one (updated), so requests interleave between the read of the      *)
(* previous record, the write and the evaluation of is_new_assignment.     *)
(***************************************************************************)
\* require_role, then find_one: the previous record
UpdateRead(tok, u, body) ==
    /\ app = "server"
    /\ LET gate == Gate(tok, {"Admin", "Editor"})
           found == FindByString(u)
       IN  IF gate # 0
           THEN /\ last' = Reply(tok, "update", gate)
                /\ UNCHANGED pending
           ELSE IF found = {}
           THEN /\ last' = [Reply(tok, "update", 404) EXCEPT !.id = u, !.body = body]
                /\ UNCHANGED pending
           ELSE /\ Len(pending) < MaxPending
                /\ pending' = Append(pending,
                                     [tok |-> tok, u |-> u, body |-> body,
                                      orig |-> CHOOSE d \in found : TRUE, pc |-> "read"])
                /\ UNCHANGED last
    /\ UNCHANGED <<app, now, users, nextUid, issued, equipment, nextOid, bg, mailbox,
                   reset_tokens, nextToken>>

\* update_one({"_id": item_id}, {"$set": update}) of the i-th request in
\* flight, on the record as it is stored now
UpdateWrite(i) ==
    /\ i \in 1..Len(pending)
    /\ pending[i].pc = "read"
    /\ equipment' = {IF d \in FindByString(pending[i].u) THEN SetFields(d, pending[i].body)
                     ELSE d : d \in equipment}
    /\ pending' = [pending EXCEPT ![i].pc = "written"]
    /\ UNCHANGED <<app, now, users, nextUid, issued, nextOid, bg, mailbox,
                   reset_tokens, nextToken, last>>

\* find_one (updated), is_new_assignment against the record read at the
\* start, add_task, and the response of the i-th request in flight
UpdateRespond(i) ==
    /\ i \in 1..Len(pending)
    /\ pending[i].pc = "written"
    /\ LET p == pending[i]
           found == FindByString(p.u)
           fires == is_new_assignment(p.orig, p.body)
       IN  /\ found # {}
           /\ fires => Len(bg) < MaxBg
           /\ LET updated == CHOOSE d \in found : TRUE
              IN  /\ bg' = IF fires THEN Append(bg, BgTask(updated, p.body)) ELSE bg
                  /\ last' = [Reply(p.tok, "update", 200) EXCEPT
                                 !.id = p.u, !.body = p.body, !.orig = p.orig,
                                 !.result = updated, !.fired = fires]
    /\ pending' = RemoveAt(pending, i)
    /\ UNCHANGED <<app, now, users, nextUid, issued, equipment, nextOid, mailbox,
                   reset_tokens, nextToken>>

(***************************************************************************)
(* Users.  Every user document gets its _id from the driver, an ObjectId.  *)
(* A password is stored as its bcrypt hash: the salt and what was hashed.  *)
(***************************************************************************)
Hash(pw, salt) == [pw |-> pw, salt |-> salt]

SeedAdmin == [_id |-> Oid(1), email |-> "admin@example.com", role |-> "Admin",
              password |-> Hash("password123", "salt0")]
SeedEditor == [_id |-> Oid(2), email |-> "ed@example.com", role |-> "Editor",
               password |-> Hash("password123", "salt0")]
SeedViewer == [_id |-> Oid(3), email |-> "vi@example.com", role |-> "Viewer",
               password |-> Hash("password123", "salt0")]

FindUserByEmail_mut_None(e) == {}

\* find_one({"email": e})
FindUserByEmail(e) == {x \in users : x.email = e}

\* routes/users.py delete_user
RoutesDeleteUser(tok, u) ==
    /\ app = "routes"
    /\ LET gate == Gate(tok, {"Admin"})
           found == {x \in users : x._id = Oid(u)}
       IN  IF gate # 0
           THEN /\ last' = Reply(tok, "delete_user", gate)
                /\ UNCHANGED users
           ELSE IF u = tok.id
           THEN \* "Cannot delete your own account"
                /\ last' = [Reply(tok, "delete_user", 400) EXCEPT !.id = u]
                /\ UNCHANGED users
           ELSE IF ~IsValidObjectId(u)
           THEN /\ last' = [Reply(tok, "delete_user", 400) EXCEPT !.id = u]
                /\ UNCHANGED users
           ELSE IF found = {}
           THEN /\ last' = [Reply(tok, "delete_user", 404) EXCEPT !.id = u]
                /\ UNCHANGED users
           ELSE /\ users' = users \ found
                /\ last' = [Reply(tok, "delete_user", 200) EXCEPT !.id = u]
    /\ UNCHANGED <<app, now, nextUid, issued, pending, equipment, nextOid, bg, mailbox, reset_tokens, nextToken>>

\* server.py delete_user: delete_one({'_id': user_id}) filters on the url
\* string, and the result is not looked at
ServerDeleteUser(tok, u) ==
    /\ app = "server"
    /\ LET gate == Gate(tok, {"Admin"})
       IN  IF gate # 0
           THEN /\ last' = Reply(tok, "delete_user", gate)
                /\ UNCHANGED users
           ELSE IF u = tok.id
           THEN /\ last' = [Reply(tok, "delete_user", 400) EXCEPT !.id = u]
                /\ UNCHANGED users
           ELSE /\ users' = {x \in users : x._id # StrId(u)}
                /\ last' = [Reply(tok, "delete_user", 200) EXCEPT !.id = u]
    /\ UNCHANGED <<app, now, nextUid, issued, pending, equipment, nextOid, bg, mailbox, reset_tokens, nextToken>>

\* get_all_users / list_users: the gate, then a read of the collection
ListUsers(tok) ==
    /\ last' = Reply(tok, "list_users",
                      IF Gate(tok, {"Admin"}) # 0 THEN Gate(tok, {"Admin"}) ELSE 200)
    /\ UNCHANGED <<app, now, users, nextUid, issued, pending, equipment, nextOid, bg, mailbox,
                   reset_tokens, nextToken>>

\* the document create_user inserts
NewUserDoc(email, role, pw, salt) ==
    [_id |-> Oid(nextUid), email |-> email, role |-> role, password |-> Hash(pw, salt)]

\* routes/users.py create_user
RoutesCreateUser(tok, email, role, pw, salt) ==
    /\ app = "routes"
    /\ LET gate == Gate(tok, {"Admin"})
       IN  IF gate # 0
           THEN /\ last' = Reply(tok, "create_user", gate)
                /\ UNCHANGED <<users, nextUid>>
           ELSE IF FindUserByEmail(email) # {}
           THEN \* "User already exists"
                /\ last' = [Reply(tok, "create_user", 400) EXCEPT !.email = email]
                /\ UNCHANGED <<users, nextUid>>
           ELSE /\ Cardinality(users) < MaxUsers
                /\ users' = users \cup {NewUserDoc(email, role, pw, salt)}
                /\ nextUid' = nextUid + 1
                /\ last' = [Reply(tok, "create_user", 200) EXCEPT
                               !.email = email, !.id = nextUid]
    /\ UNCHANGED <<app, now, issued, pending, equipment, nextOid, bg, mailbox, reset_tokens, nextToken>>

\* server.py create_user
ServerCreateUser(tok, email, role, pw, salt) ==
    /\ app = "server"
    /\ LET gate == Gate(tok, {"Admin"})
       IN  IF gate # 0
           THEN /\ last' = Reply(tok, "create_user", gate)
                /\ UNCHANGED <<users, nextUid>>
           ELSE IF FindUserByEmail(email) # {}
           THEN /\ last' = [Reply(tok, "create_user", 400) EXCEPT !.email = email]
                /\ UNCHANGED <<users, nextUid>>
           ELSE /\ Cardinality(users) < MaxUsers
                /\ users' = users \cup {NewUserDoc(email, role, pw, salt)}
                /\ nextUid' = nextUid + 1
                /\ last' = [Reply(tok, "create_user", 200) EXCEPT
                               !.email = email, !.id = nextUid]
    /\ UNCHANGED <<app, now, issued, pending, equipment, nextOid, bg, mailbox, reset_tokens, nextToken>>

\* {"$set": update_data} on a user: email, role and password are Absent when
\* the request does not set them; a password that is set is stored hashed
SetUserFields(x, email, role, pw, salt) ==
    [x EXCEPT !.email = IF email # Absent THEN email ELSE @,
              !.role = IF role # Absent THEN role ELSE @,
              !.password = IF Truthy(pw) THEN Hash(pw, salt) ELSE @]

\* routes/users.py update_user
RoutesUpdateUser(tok, u, email, role, pw, salt) ==
    /\ app = "routes"
    /\ LET gate == Gate(tok, {"Admin"})
           found == {x \in users : x._id = Oid(u)}
       IN  IF gate # 0
           THEN /\ last' = Reply(tok, "update_user", gate)
                /\ UNCHANGED users
           ELSE IF ~IsValidObjectId(u)
           THEN /\ last' = [Reply(tok, "update_user", 400) EXCEPT !.id = u]
                /\ UNCHANGED users
           ELSE IF found = {}
           THEN /\ last' = [Reply(tok, "update_user", 404) EXCEPT !.id = u]
                /\ UNCHANGED users
           ELSE IF email # Absent /\ \E x \in users : x.email = email /\ x._id # Oid(u)
           THEN \* "Email already in use"
                /\ last' = [Reply(tok, "update_user", 400) EXCEPT !.id = u, !.email = email]
                /\ UNCHANGED users
           ELSE /\ users' = {IF x \in found THEN SetUserFields(x, email, role, pw, salt)
                             ELSE x : x \in users}
                /\ last' = [Reply(tok, "update_user", 200) EXCEPT
                               !.id = u, !.email = IF email = Absent THEN "" ELSE email]
    /\ UNCHANGED <<app, now, nextUid, issued, pending, equipment, nextOid, bg, mailbox,
                   reset_tokens, nextToken>>

\* server.py update_user: the filter expression it builds,
\* AsyncIOMotorClient().get_default_database(), raises (no default database),
\* so past the gate every request ends in 500 and nothing is written
ServerUpdateUser(tok, u) ==
    /\ app = "server"
    /\ LET gate == Gate(tok, {"Admin"})
       IN  last' = IF gate # 0 THEN Reply(tok, "update_user", gate)
                   ELSE [Reply(tok, "update_user", 500) EXCEPT !.id = u]
    /\ UNCHANGED <<app, now, users, nextUid, issued, pending, equipment, nextOid, bg, mailbox,
                   reset_tokens, nextToken>>

(***************************************************************************)
(* Password reset.  reset_tokens maps a token to {email, expiry}; a token  *)
(* is a fresh random string, here the next unused number.                  *)
(***************************************************************************)
Without(m, t) == [k \in (DOMAIN m) \ {t} |-> m[k]]

With_mut_OnePerEmail(m, t, v) ==
    [k \in {j \in DOMAIN m : m[j].email # v.email} \cup {t} |-> IF k = t THEN v ELSE m[k]]

With(m, t, v) == [k \in (DOMAIN m) \cup {t} |-> IF k = t THEN v ELSE m[k]]

\* routes/auth.py forgot_password; sent is whether send_reset_email returned
RoutesForgotPassword(email, sent) ==
    /\ app = "routes"
    /\ IF FindUserByEmail(email) = {}
       THEN /\ last' = [Answer("forgot", 404) EXCEPT !.email = email]
            /\ UNCHANGED <<reset_tokens, nextToken>>
       ELSE /\ nextToken <= MaxTokens
            /\ reset_tokens' = With(reset_tokens, nextToken,
                                    [email |-> email, expiry |-> now + RESET_EXPIRY_HOURS])
            /\ nextToken' = nextToken + 1
            /\ last' = [Answer("forgot", IF sent THEN 200 ELSE 500) EXCEPT
                           !.email = email, !.token = nextToken]
    /\ UNCHANGED <<app, now, users, nextUid, issued, pending, equipment, nextOid, bg, mailbox>>

\* server.py forgot_password: asyncio.to_thread is handed the coroutine
\* function send_email_smtp, so nothing is sent and nothing is raised
ServerForgotPassword(email) ==
    /\ app = "server"
    /\ IF FindUserByEmail(email) = {}
       THEN /\ last' = [Answer("forgot", 404) EXCEPT !.email = email]
            /\ UNCHANGED <<reset_tokens, nextToken>>
       ELSE /\ nextToken <= MaxTokens
            /\ reset_tokens' = With(reset_tokens, nextToken,
                                    [email |-> email, expiry |-> now + RESET_EXPIRY_HOURS])
            /\ nextToken' = nextToken + 1
            /\ last' = [Answer("forgot", 200) EXCEPT
                           !.email = email, !.token = nextToken]
    /\ UNCHANGED <<app, now, users, nextUid, issued, pending, equipment, nextOid, bg, mailbox>>

\* update_one({...}, {"$set": {"password": hashed}}) on the user found
SetPassword(email, hashed) ==
    {IF x.email = email THEN [x EXCEPT !.password = hashed] ELSE x : x \in users}

\* the token check of routes/auth.py reset_password: the status it raises
\* (0: the token passes) and the token map it leaves
RoutesTokenCheck_mut_NoEmailCheck(email, t) ==
    IF t \notin DOMAIN reset_tokens
    THEN [code |-> 400, tokens |-> reset_tokens]
    ELSE IF reset_tokens[t].expiry < now
    THEN [code |-> 400, tokens |-> Without(reset_tokens, t)]
    ELSE [code |-> 0, tokens |-> reset_tokens]

RoutesTokenCheck(email, t) ==
    IF t \notin DOMAIN reset_tokens
    THEN [code |-> 400, tokens |-> reset_tokens]
    ELSE IF reset_tokens[t].expiry < now
    THEN [code |-> 400, tokens |-> Without(reset_tokens, t)]
    ELSE IF reset_tokens[t].email # email
    THEN [code |-> 400, tokens |-> reset_tokens]
    ELSE [code |-> 0, tokens |-> reset_tokens]

\* "Remove used token"
Consume_mut_KeepToken(tokens, t) == tokens

Consume(tokens, t) == Without(tokens, t)

RoutesResetPassword(email, t, pw, salt) ==
    /\ app = "routes"
    /\ LET chk == RoutesTokenCheck(email, t)
       IN  IF chk.code # 0
           THEN /\ reset_tokens' = chk.tokens
                /\ last' = [Answer("reset", chk.code) EXCEPT !.email = email, !.token = t]
                /\ UNCHANGED users
           ELSE IF FindUserByEmail(email) = {}
           THEN /\ last' = [Answer("reset", 404) EXCEPT !.email = email, !.token = t]
                /\ UNCHANGED <<users, reset_tokens>>
           ELSE /\ users' = SetPassword(email, Hash(pw, salt))
                /\ reset_tokens' = Consume(reset_tokens, t)
                /\ last' = [Answer("reset", 200) EXCEPT !.email = email, !.token = t]
    /\ UNCHANGED <<app, now, nextUid, issued, pending, equipment, nextOid, bg, mailbox, nextToken>>

\* the one condition of server.py reset_password
ServerTokenCheck(email, t) ==
    IF \/ t \notin DOMAIN reset_tokens
       \/ reset_tokens[t].expiry < now
       \/ reset_tokens[t].email # email
    THEN [code |-> 400, tokens |-> reset_tokens]
    ELSE [code |-> 0, tokens |-> reset_tokens]

ServerResetPassword(email, t, pw, salt) ==
    /\ app = "server"
    /\ LET chk == ServerTokenCheck(email, t)
       IN  IF chk.code # 0
           THEN /\ reset_tokens' = chk.tokens
                /\ last' = [Answer("reset", chk.code) EXCEPT !.email = email, !.token = t]
                /\ UNCHANGED users
           ELSE IF FindUserByEmail(email) = {}
           THEN /\ last' = [Answer("reset", 404) EXCEPT !.email = email, !.token = t]
                /\ UNCHANGED <<users, reset_tokens>>
           ELSE /\ users' = SetPassword(email, Hash(pw, salt))
                /\ reset_tokens' = Consume(reset_tokens, t)
                /\ last' = [Answer("reset", 200) EXCEPT !.email = email, !.token = t]
    /\ UNCHANGED <<app, now, nextUid, issued, pending, equipment, nextOid, bg, mailbox, nextToken>>

(***************************************************************************)
(* reset_password as the event loop runs it, in either application: the    *)
(* handler gives up control at await find_one and at await update_one, so  *)
(* requests interleave between the token check, the lookup, the write and  *)
(* the removal of the token.  pending holds the requests past the check.   *)
(***************************************************************************)
\* the token check, up to await find_one
ResetVerify(email, t, pw, salt) ==
    /\ LET chk == IF app = "routes" THEN RoutesTokenCheck(email, t)
                  ELSE ServerTokenCheck(email, t)
       IN  IF chk.code # 0
           THEN /\ reset_tokens' = chk.tokens
                /\ last' = [Answer("reset", chk.code) EXCEPT !.email = email, !.token = t]
                /\ UNCHANGED pending
           ELSE /\ Len(pending) < MaxPending
                /\ pending' = Append(pending,
                                     [email |-> email, token |-> t, pw |-> pw, salt |-> salt,
                                      uid |-> NoId, pc |-> "verified"])
                /\ UNCHANGED <<reset_tokens, last>>
    /\ UNCHANGED <<app, now, users, nextUid, issued, equipment, nextOid, bg, mailbox, nextToken>>

\* find_one returns to the i-th request in flight; it hashes the password
\* and calls update_one
ResetFind(i) ==
    /\ i \in 1..Len(pending)
    /\ pending[i].pc = "verified"
    /\ LET p == pending[i]
           found == FindUserByEmail(p.email)
       IN  IF found = {}
           THEN /\ last' = [Answer("reset", 404) EXCEPT !.email = p.email, !.token = p.token]
                /\ pending' = RemoveAt(pending, i)
           ELSE /\ pending' = [pending EXCEPT ![i].pc = "found",
                                              ![i].uid = (CHOOSE x \in found : TRUE)._id]
                /\ UNCHANGED last
    /\ UNCHANGED <<app, now, users, nextUid, issued, equipment, nextOid, bg, mailbox,
                   reset_tokens, nextToken>>

\* the update_one of the i-th request in flight: the router application
\* filters on the email, server.py on the _id of the user it found
ResetWrite(i) ==
    /\ i \in 1..Len(pending)
    /\ pending[i].pc = "found"
    /\ LET p == pending[i]
       IN  users' = IF app = "routes"
                    THEN SetPassword(p.email, Hash(p.pw, p.salt))
                    ELSE {IF x._id = p.uid THEN [x EXCEPT !.password = Hash(p.pw, p.salt)]
                          ELSE x : x \in users}
    /\ pending' = [pending EXCEPT ![i].pc = "written"]
    /\ UNCHANGED <<app, now, nextUid, issued, equipment, nextOid, bg, mailbox,
                   reset_tokens, nextToken, last>>

\* update_one returns to the i-th request in flight: del reset_tokens[token]
\* raises KeyError, which nothing catches, when the token is no longer in
\* the map
ResetConsume(i) ==
    /\ i \in 1..Len(pending)
    /\ pending[i].pc = "written"
    /\ LET p == pending[i]
       IN  IF p.token \in DOMAIN reset_tokens
           THEN /\ reset_tokens' = Consume(reset_tokens, p.token)
                /\ last' = [Answer("reset", 200) EXCEPT !.email = p.email, !.token = p.token]
           ELSE /\ last' = [Answer("reset", 500) EXCEPT !.email = p.email, !.token = p.token]
                /\ UNCHANGED reset_tokens
    /\ pending' = RemoveAt(pending, i)
    /\ UNCHANGED <<app, now, users, nextUid, issued, equipment, nextOid, bg, mailbox, nextToken>>

\* the clock: one hour passes
Tick ==
    /\ now < MaxTime
    /\ now' = now + 1
    /\ UNCHANGED <<app, users, nextUid, issued, pending, equipment, nextOid, bg, mailbox,
                   reset_tokens, nextToken, last>>

(***************************************************************************)
(* Initial states.  The users collection holds the seeded admin and two    *)
(* more accounts, each of which has logged in at hour 0; the equipment     *)
(* collection and the token map are empty.                                 *)
(***************************************************************************)
SeedUsers == {SeedAdmin, SeedEditor, SeedViewer}

Init ==
    /\ app \in Apps
    /\ now = 0
    /\ users = SeedUsers
    /\ nextUid = Cardinality(SeedUsers) + 1
    /\ issued = {create_jwt_token(x, 0) : x \in SeedUsers}
    /\ equipment = {}
    /\ nextOid = 1
    /\ pending = <<>>
    /\ bg = <<>>
    /\ mailbox = {}
    /\ reset_tokens = <<>>
    /\ nextToken = 1
    /\ last = NoLast

\* the url strings requests name: 0 is no ObjectId, MaxEquip + 1 matches nothing
Urls == 0..(MaxEquip + 1)

\* each next-state relation below draws the requests of one part of the
\* system; Next, at the end, is their union

(***************************************************************************)
(* The damage-description rule: requests over status and damageDescription.*)
(***************************************************************************)
DamageCreateBodies ==
    {[EmptyBody EXCEPT !.category = "Lap", !.status = st, !.damageDescription = dd] :
        st \in {Absent, "In Stock", "Damaged"}, dd \in {Absent, Null, "cracked"}}

DamageUpdateBodies ==
    {[EmptyBody EXCEPT !.status = st, !.damageDescription = dd] :
        st \in {Absent, Null, "In Stock", "Damaged"}, dd \in {Absent, Null, "cracked"}}

\* the callers of this specification: nobody, the editor, the viewer
DamageTokens == {NoToken} \cup {t \in issued : t.role \in {"Editor", "Viewer"}}

NextDamage ==
    \/ \E tok \in DamageTokens, body \in DamageCreateBodies :
          RoutesCreateEquipment(tok, body, "00001")
    \/ \E tok \in DamageTokens, u \in Urls, body \in DamageUpdateBodies :
          RoutesUpdateEquipment(tok, u, body)
    \/ \E tok \in DamageTokens, body \in DamageCreateBodies, cid \in {-1, 1} :
          ServerCreateEquipment(tok, body, cid)
    \/ \E tok \in DamageTokens, u \in Urls, body \in DamageUpdateBodies :
          ServerUpdateEquipment(tok, u, body)

SpecDamage == Init /\ [][NextDamage]_vars

\* C1: every stored equipment record whose status is not Damaged has a null
\* damageDescription, after any sequence of creates and updates of the router
\* application.
C1_DamageOnlyWhenDamaged ==
    app = "routes" =>
        \A d \in equipment :
            d.f.status # "Damaged" => Get(d.f.damageDescription) = Null

\* C2: after an update whose fields carry a status other than Damaged, the
\* stored record's damageDescription is null, whatever damageDescription the
\* request carried.
C2_NonDamagedStatusClearsDescription ==
    (/\ last.op = "update"
     /\ last.code = 200
     /\ last.body.status \in Statuses \ {"Damaged"})
    => \A d \in equipment :
          d._id = last.result._id => Get(d.f.damageDescription) = Null

(***************************************************************************)
(* Serial numbers: requests over serialNumber, and soft delete.            *)
(***************************************************************************)
SerialCreateBodies ==
    {[EmptyBody EXCEPT !.category = "Lap", !.serialNumber = sn] :
        sn \in {Absent, Null, "", "SN1", "SN2"}}

SerialUpdateBodies ==
    {[EmptyBody EXCEPT !.serialNumber = sn] : sn \in {Absent, Null, "SN1", "SN2"}}

\* the callers of this specification: nobody, the admin, the editor
SerialTokens == {NoToken} \cup {t \in issued : t.role \in {"Admin", "Editor"}}

NextSerial ==
    \/ \E tok \in SerialTokens, body \in SerialCreateBodies :
          RoutesCreateEquipment(tok, body, "00001")
    \/ \E tok \in SerialTokens, u \in Urls, body \in SerialUpdateBodies :
          RoutesUpdateEquipment(tok, u, body)
    \/ \E tok \in SerialTokens, u \in Urls :
          RoutesDeleteEquipment(tok, u)
    \/ \E tok \in SerialTokens, body \in SerialCreateBodies, cid \in {-1, 1} :
          ServerCreateEquipment(tok, body, cid)
    \/ \E tok \in SerialTokens, u \in Urls, body \in SerialUpdateBodies :
          ServerUpdateEquipment(tok, u, body)
    \/ \E tok \in SerialTokens, u \in Urls :
          ServerDeleteEquipment(tok, u)

SpecSerial == Init /\ [][NextSerial]_vars

\* a step that answers a create request that got past the session and role
\* gates
CreateStep ==
    /\ last'.op = "create" /\ last'.code \notin {401, 403}
    /\ now' = now /\ bg' = bg

\* C3: a create call whose serialNumber is that of an existing record,
\* soft-deleted or not, is answered 400 and leaves the collection unchanged.
C3_DuplicateSerialCreateRejected ==
    [][(/\ CreateStep
        /\ Truthy(last'.body.serialNumber)
        /\ \E d \in equipment : d.f.serialNumber = last'.body.serialNumber)
       => (last'.code = 400 /\ equipment' = equipment)]_vars

\* C4: in the router application no two records that are not deleted carry
\* the same non-null serialNumber, after any creates, updates and soft
\* deletes.
C4_SerialUniqueAmongNonDeleted ==
    app = "routes" =>
        \A d1, d2 \in equipment :
            (/\ d1 # d2
             /\ NotDeleted(d1) /\ NotDeleted(d2)
             /\ Get(d1.f.serialNumber) # Null)
            => d1.f.serialNumber # d2.f.serialNumber

\* an update tried to give a record the serial number of another record
C4_Witness ==
    /\ app = "routes"
    /\ last.op = "update"
    /\ last.code = 500
    /\ Truthy(last.body.serialNumber)
    /\ \E d \in equipment :
          d._id # last.orig._id /\ d.f.serialNumber = last.body.serialNumber

(***************************************************************************)
(* The assignment notifier, which only server.py has: requests over        *)
(* status, assigneeName and employeeEmail, and the background tasks.       *)
(***************************************************************************)
InitNotify == Init /\ app = "server"

NotifyCreateBodies ==
    {[EmptyBody EXCEPT !.category = "Lap", !.status = st] :
        st \in {"In Stock", "In Use"}}

NotifyUpdateBodies ==
    {[EmptyBody EXCEPT !.status = st, !.assigneeName = an, !.employeeEmail = em] :
        st \in {"In Stock", "In Use"},
        an \in {Absent, "", "A", "B"},
        em \in {"", "a@x.com"}}

\* the callers of this specification: nobody and the editor
NotifyTokens == {NoToken} \cup {t \in issued : t.role = "Editor"}

\* the url strings of this specification: the one _id a client names at
\* create, and one that matches nothing
NotifyUrls == {1, 2}

NextNotify ==
    \/ \E tok \in NotifyTokens, body \in NotifyCreateBodies, cid \in {-1, 1} :
          ServerCreateEquipment(tok, body, cid)
    \/ \E tok \in NotifyTokens, u \in NotifyUrls, body \in NotifyUpdateBodies :
          ServerUpdateEquipment(tok, u, body)
    \/ \E i \in 1..MaxBg, outcome \in BgOutcomes :
          bg_task(i, outcome)

SpecNotify == InitNotify /\ [][NextNotify]_vars

\* a step that answers an update request with the updated record
UpdateOk == last'.op = "update" /\ last'.code = 200 /\ Len(bg') >= Len(bg)

\* a step that hands one more task to the background
Fired == Len(bg') = Len(bg) + 1

\* a step in which a background task ran
BgStep == Len(bg') < Len(bg)

\* the record the request names, as stored before the step
Previous == CHOOSE d \in equipment : d._id = StrId(last'.id)

\* the update {status: In Use, assigneeName: A, employeeEmail: E}
Assigns(b) ==
    /\ b.status = "In Use"
    /\ b.assigneeName \notin {Absent, Null, ""}
    /\ b.employeeEmail \notin {Absent, Null, ""}

\* C5: the notifier is edge-triggered over sequential updates: an assigning
\* update of a record that is not In Use fires it, and the identical update
\* repeated right after, with no other request in between, does not.
C5_EdgeTriggered ==
    [][UpdateOk =>
        /\ (Assigns(last'.body) /\ Get(Previous.f.status) # "In Use") => Fired
        /\ (/\ Assigns(last'.body)
            /\ last.op = "update" /\ last.code = 200
            /\ last.id = last'.id /\ last.body = last'.body) => ~Fired]_vars

\* the identical assigning update was answered twice in a row
C5_Witness ==
    /\ last.op = "update" /\ last.code = 200
    /\ Assigns(last.body)
    /\ Get(last.orig.f.status) = "In Use"
    /\ last.orig.f.assigneeName = last.body.assigneeName
    /\ ~last.fired
    /\ Len(bg) = 1

\* C6: the notifier fires exactly when the update's status is In Use, it
\* carries a non-empty assigneeName and a non-empty employeeEmail, and the
\* record as stored before the write is not In Use or has another
\* assigneeName.
C6_FiresIff ==
    [][UpdateOk =>
        (Fired <=>
            /\ Assigns(last'.body)
            /\ \/ Get(Previous.f.status) # "In Use"
               \/ Get(Previous.f.assigneeName) # last'.body.assigneeName)]_vars

\* a reassignment of an In Use record to another assignee fired
C6_Witness ==
    /\ last.op = "update" /\ last.code = 200 /\ last.fired
    /\ Get(last.orig.f.status) = "In Use"
    /\ last.orig.f.assigneeName = "A"
    /\ last.body.assigneeName = "B"

\* C7: the update that fires answers 200 with the stored record, and the
\* background task, whatever its outcome, leaves the collection and the
\* answer as they are and is gone from the queue: it is not run again.
C7_NotificationIsolated ==
    [][/\ (UpdateOk /\ Fired) => last'.result \in equipment'
       /\ (last'.op = "update" /\ Fired) => last'.code = 200
       /\ BgStep => /\ equipment' = equipment
                    /\ last' = last
                    /\ Len(bg') = Len(bg) - 1]_vars

\* a fired notification's task has run and delivered nothing
C7_Witness ==
    /\ last.op = "update" /\ last.code = 200 /\ last.fired
    /\ bg = <<>>
    /\ mailbox = {}

(***************************************************************************)
(* Password reset: the clock, forgot-password and reset-password of both   *)
(* applications, and the deletion of the account a token was issued for.   *)
(***************************************************************************)
ForgotEmails == {"ed@example.com", "nobody@example.com"}
ResetEmails == {"ed@example.com", "vi@example.com"}
NewPasswords == {"newpass1"}
Salts == {"salt1", "salt2"}

\* the callers of delete_user in this specification: nobody and the admin
ResetCallers == {NoToken} \cup {t \in issued : t.role = "Admin"}

NextReset ==
    \/ Tick
    \/ \E email \in ForgotEmails, sent \in BOOLEAN :
          RoutesForgotPassword(email, sent)
    \/ \E email \in ForgotEmails :
          ServerForgotPassword(email)
    \/ \E email \in ResetEmails, t \in 1..MaxTokens, pw \in NewPasswords, salt \in Salts :
          RoutesResetPassword(email, t, pw, salt)
    \/ \E email \in ResetEmails, t \in 1..MaxTokens, pw \in NewPasswords, salt \in Salts :
          ServerResetPassword(email, t, pw, salt)
    \/ \E tok \in ResetCallers, u \in {1, 2} :
          RoutesDeleteUser(tok, u)
    \/ \E tok \in ResetCallers, u \in {1, 2} :
          ServerDeleteUser(tok, u)

SpecReset == Init /\ [][NextReset]_vars

\* a step that answers a reset-password request
ResetStep == last'.op = "reset" /\ now' = now

\* the token presented is in the map, past its expiry
PresentedExpired ==
    /\ last'.token \in DOMAIN reset_tokens
    /\ reset_tokens[last'.token].expiry < now

\* the token presented is in the map, not expired, issued for another email
PresentedWrongEmail ==
    /\ last'.token \in DOMAIN reset_tokens
    /\ ~(reset_tokens[last'.token].expiry < now)
    /\ reset_tokens[last'.token].email # last'.email

\* C8: a reset token is single-use: the reset that succeeds with T removes T
\* from the map, a removed token never comes back, and a reset that presents
\* a token that is not in the map is answered 400 and changes no password.
C8_TokenSingleUse ==
    [][/\ (ResetStep /\ last'.code = 200) => last'.token \notin DOMAIN reset_tokens'
       /\ \A t \in 1..MaxTokens :
             (t < nextToken /\ t \notin DOMAIN reset_tokens)
             => t \notin DOMAIN reset_tokens'
       /\ (ResetStep /\ last'.token \notin DOMAIN reset_tokens)
          => (last'.code = 400 /\ users' = users)]_vars

\* the one token issued was used by a reset that succeeded, and was then
\* presented again and refused
C8_Witness ==
    /\ nextToken = 2
    /\ \E x \in users : x.email = "ed@example.com" /\ x.password.pw = "newpass1"
    /\ last.op = "reset" /\ last.code = 400 /\ last.token = 1
    /\ last.email = "ed@example.com"
    /\ now = 0

\* C9: a reset that presents a token past its expiry is answered 400,
\* changes no password, and removes the token from the map.
C9_ExpiredTokenRemoved ==
    [][(ResetStep /\ PresentedExpired)
       => /\ last'.code = 400
          /\ users' = users
          /\ last'.token \notin DOMAIN reset_tokens']_vars

\* C10: a reset that presents an unknown token, an expired token or a token
\* issued for another email is answered 400 and changes no password; the
\* token presented with the wrong email stays in the map as it was, and a
\* later reset that presents it, unexpired, with its own email succeeds.
C10_InvalidResetRejected ==
    [][ResetStep =>
        /\ (\/ last'.token \notin DOMAIN reset_tokens
            \/ PresentedExpired
            \/ PresentedWrongEmail)
           => (last'.code = 400 /\ users' = users)
        /\ PresentedWrongEmail => reset_tokens' = reset_tokens
        /\ (/\ last'.token \in DOMAIN reset_tokens
            /\ ~PresentedExpired /\ ~PresentedWrongEmail
            /\ \E x \in users : x.email = last'.email)
           => last'.code = 200]_vars

\* a reset presenting an unexpired token with another user's email was
\* refused, and the token is still stored for its own email
C10_Witness ==
    /\ nextToken = 2
    /\ last.op = "reset" /\ last.code = 400 /\ last.token = 1
    /\ last.email = "vi@example.com"
    /\ 1 \in DOMAIN reset_tokens
    /\ reset_tokens[1].email = "ed@example.com"
    /\ ~(reset_tokens[1].expiry < now)

(***************************************************************************)
(* Access control: every handler that takes a session, called with no      *)
(* token, a token that does not verify and the three sessions.             *)
(***************************************************************************)
AccessCreateBodies == {[EmptyBody EXCEPT !.category = "Lap", !.status = "In Stock"]}

AccessUpdateBodies ==
    {[EmptyBody EXCEPT !.location = "HQ"], [EmptyBody EXCEPT !.isDeleted = BTrue]}

\* url strings: no ObjectId, and the first id of either collection
AccessUrls == {0, 1}

AccessEmails == {"new@example.com"}
AccessRoles == {Absent, "Viewer"}

NextAccess ==
    \/ \E tok \in RequestTokens, body \in AccessCreateBodies :
          RoutesCreateEquipment(tok, body, "00001")
    \/ \E tok \in RequestTokens, u \in AccessUrls, body \in AccessUpdateBodies :
          RoutesUpdateEquipment(tok, u, body)
    \/ \E tok \in RequestTokens, u \in AccessUrls :
          RoutesDeleteEquipment(tok, u)
    \/ \E tok \in RequestTokens, body \in AccessCreateBodies :
          ServerCreateEquipment(tok, body, 1)
    \/ \E tok \in RequestTokens, u \in AccessUrls, body \in AccessUpdateBodies :
          ServerUpdateEquipment(tok, u, body)
    \/ \E tok \in RequestTokens, u \in AccessUrls :
          ServerDeleteEquipment(tok, u)
    \/ \E tok \in RequestTokens :
          ListUsers(tok)
    \/ \E tok \in RequestTokens, email \in AccessEmails :
          RoutesCreateUser(tok, email, "Viewer", "password123", "salt1")
    \/ \E tok \in RequestTokens, email \in AccessEmails :
          ServerCreateUser(tok, email, "Viewer", "password123", "salt1")
    \/ \E tok \in RequestTokens, u \in AccessUrls, role \in AccessRoles :
          RoutesUpdateUser(tok, u, Absent, role, Absent, "salt1")
    \/ \E tok \in RequestTokens, u \in AccessUrls :
          ServerUpdateUser(tok, u)
    \/ \E tok \in RequestTokens, u \in AccessUrls \cup {2} :
          RoutesDeleteUser(tok, u)
    \/ \E tok \in RequestTokens, u \in AccessUrls \cup {2} :
          ServerDeleteUser(tok, u)

SpecAccess == Init /\ [][NextAccess]_vars

(***************************************************************************)
(* Sessions as they age: the clock, handlers that write users or equipment *)
(* (the updates of equipment are exercised by the specification above),    *)
(* and the password reset, which takes no session.                         *)
(***************************************************************************)
\* the callers of this specification: nobody, a token that does not verify,
\* the admin and the editor
SessionTokens == {NoToken, BadToken} \cup {t \in issued : t.role \in {"Admin", "Editor"}}

NextSession ==
    \/ Tick
    \/ \E tok \in SessionTokens, body \in AccessCreateBodies :
          RoutesCreateEquipment(tok, body, "00001")
    \/ \E tok \in SessionTokens :
          RoutesDeleteEquipment(tok, 1)
    \/ \E tok \in SessionTokens, body \in AccessCreateBodies :
          ServerCreateEquipment(tok, body, 1)
    \/ \E tok \in SessionTokens :
          ServerDeleteEquipment(tok, 1)
    \/ \E tok \in SessionTokens, email \in AccessEmails :
          RoutesCreateUser(tok, email, "Viewer", "password123", "salt1")
    \/ \E tok \in SessionTokens, email \in AccessEmails :
          ServerCreateUser(tok, email, "Viewer", "password123", "salt1")
    \/ \E tok \in SessionTokens :
          RoutesUpdateUser(tok, 3, Absent, "Editor", Absent, "salt1")
    \/ \E tok \in SessionTokens :
          ServerUpdateUser(tok, 3)
    \/ \E tok \in SessionTokens :
          RoutesDeleteUser(tok, 3)
    \/ \E tok \in SessionTokens :
          ServerDeleteUser(tok, 3)
    \* one password reset is asked for
    \/ (nextToken = 1 /\ RoutesForgotPassword("ed@example.com", TRUE))
    \/ (nextToken = 1 /\ ServerForgotPassword("ed@example.com"))
    \/ RoutesResetPassword("ed@example.com", 1, "newpass1", "salt1")
    \/ ServerResetPassword("ed@example.com", 1, "newpass1", "salt1")

SpecSession == Init /\ [][NextSession]_vars

\* a step that answers a request
RequestStep == now' = now /\ Len(bg') >= Len(bg)

\* the session the request carried is inside its lifetime
SessionFresh(tok) == tok.kind = "jwt" /\ now < tok.exp

\* the request carried no token, a malformed one, or a session older than
\* its lifetime
SessionMissingOrStale(tok) == tok.kind \in {"none", "bad"} \/ now > tok.exp

\* the request was refused with 403 and nothing was written
Refused403 == last'.code = 403 /\ equipment' = equipment /\ users' = users

\* the operations that take a session token
EquipmentWriteOps == {"create", "update"}
UserOps == {"list_users", "create_user", "update_user", "delete_user"}

\* C11: a delete-user request that names the caller's own id is answered 403
\* and removes no user, also when the caller is an Admin.
C11_SelfDeleteForbidden ==
    [][(/\ RequestStep
        /\ last'.op = "delete_user"
        /\ SessionFresh(last'.caller)
        /\ last'.caller.role = "Admin"
        /\ last'.id = last'.caller.id)
       => (last'.code = 403 /\ users' = users)]_vars

\* C12: a request with a session inside its lifetime whose role is not among
\* the operation's roles (create and update equipment: Admin, Editor; list,
\* create, update and delete users: Admin) is answered 403 and writes
\* neither collection.
C12_RoleGate ==
    [][(RequestStep /\ SessionFresh(last'.caller)) =>
        /\ (/\ last'.op \in EquipmentWriteOps
            /\ last'.caller.role \notin {"Admin", "Editor"}) => Refused403
        /\ (/\ last'.op \in UserOps
            /\ last'.caller.role # "Admin") => Refused403]_vars

\* the viewer's update of a stored record was refused
C12_Witness ==
    /\ last.op = "update" /\ last.code = 403
    /\ last.caller.role = "Viewer"
    /\ equipment # {}

\* C13: in the router application no request of an Editor or a Viewer takes
\* a record's isDeleted from false to true.
C13_SoftDeleteAdminOnly ==
    [][(/\ RequestStep
        /\ app = "routes"
        /\ last'.caller.role \in {"Editor", "Viewer"})
       => \A d \in equipment, e \in equipment' :
             (e._id = d._id /\ d.f.isDeleted = BFalse) => e.f.isDeleted # BTrue]_vars

InitRoutes == Init /\ app = "routes"

TagCategories == {"", "Lap", "laptop", "PC"}

TagCreateBodies == {[EmptyBody EXCEPT !.category = c] : c \in TagCategories}

\* the last five characters of str(datetime.now().timestamp()) of two
\* moments
TagSuffixes == {"00001", "00002"}

\* the callers of this specification: the admin and the viewer
TagTokens == {t \in issued : t.role \in {"Admin", "Viewer"}}

NextTag ==
    \/ \E tok \in TagTokens, body \in TagCreateBodies, suffix \in TagSuffixes :
          RoutesCreateEquipment(tok, body, suffix)
    \/ \E tok \in TagTokens, u \in Urls :
          RoutesDeleteEquipment(tok, u)

SpecTag == InitRoutes /\ [][NextTag]_vars

\* a step that answers a create request with the created record
CreatedStep == RequestStep /\ last'.op = "create" /\ last'.code = 201

\* the first three letters of a category, uppercased
FirstThreeUpper(c) ==
    CASE c = "Lap" -> <<"L", "A", "P">>
      [] c = "laptop" -> <<"L", "A", "P">>
      [] c = "PC" -> <<"P", "C">>
      [] c = "" -> <<>>

\* n written with three digits
ThreeDigits(n) == <<(n \div 100) % 10, (n \div 10) % 10, n % 10>>

\* the records of category c stored before the step
ExistingOfCategory(c) == {d \in equipment : d.f.category = c}

\* C15 as stated: a successful create stores a record whose asset tag has as
\* PREFIX the first three letters of the category uppercased, as SEQ the
\* number of records of that category before the create plus one, on three
\* digits, and as SUFFIX the time-derived string; the first create in the
\* empty category Lap gives LAP-001-XXXXX.
C15_AssetTagFormat ==
    [][CreatedStep =>
        LET a == last'.result.assetId
            c == last'.body.category
        IN  /\ last'.result \in equipment'
            /\ a.prefix = FirstThreeUpper(c)
            /\ a.seq = ThreeDigits(Cardinality(ExistingOfCategory(c)) + 1)
            /\ a.suffix \in TagSuffixes
            /\ (c = "Lap" /\ ExistingOfCategory(c) = {})
               => (a.prefix = <<"L", "A", "P">> /\ a.seq = <<0, 0, 1>>)]_vars

\* C15, amended: the same, with PREFIX = OTH when the category is the empty
\* string.
C15_AssetTagFormatOrOTH ==
    [][CreatedStep =>
        LET a == last'.result.assetId
            c == last'.body.category
        IN  /\ last'.result \in equipment'
            /\ a.prefix = (IF c = "" THEN <<"O", "T", "H">> ELSE FirstThreeUpper(c))
            /\ a.seq = ThreeDigits(Cardinality(ExistingOfCategory(c)) + 1)
            /\ a.suffix \in TagSuffixes
            /\ (c = "Lap" /\ ExistingOfCategory(c) = {})
               => (a.prefix = <<"L", "A", "P">> /\ a.seq = <<0, 0, 1>>)]_vars

\* the second record of category Lap was created next to a soft-deleted
\* first one
C15_Witness ==
    /\ last.op = "create" /\ last.code = 201
    /\ last.body.category = "Lap"
    /\ last.result.assetId.prefix = <<"L", "A", "P">>
    /\ last.result.assetId.seq = <<0, 0, 2>>
    /\ \E d \in equipment : d.f.category = "Lap" /\ d.f.isDeleted = BTrue

(***************************************************************************)
(* Concurrent creates of the router application: two requests in flight    *)
(* over one category and one serial number.                                *)
(***************************************************************************)
RaceCreateBodies ==
    {[EmptyBody EXCEPT !.category = "Lap", !.serialNumber = sn] : sn \in {Absent, "SN1"}}

\* the callers of this specification: the editor and the viewer
RaceTokens == {t \in issued : t.role \in {"Editor", "Viewer"}}

NextRace ==
    \/ \E tok \in RaceTokens, body \in RaceCreateBodies, suffix \in TagSuffixes :
          CreateCount(tok, body, suffix)
    \/ \E i \in 1..MaxPending :
          CreateCheckSerial(i)
    \/ \E i \in 1..MaxPending :
          CreateInsert(i)

SpecRace == InitRoutes /\ [][NextRace]_vars

\* C16: under any interleaving of create requests no two stored records
\* share an asset tag or a non-null serial number, and the request whose
\* insert the unique index refuses is answered 400.
C16_RaceLoserGetsConflict ==
    [][/\ \A d1, d2 \in equipment' :
             (d1 # d2) =>
                 /\ d1.assetId # d2.assetId
                 /\ Get(d1.f.serialNumber) # Null
                    => d1.f.serialNumber # d2.f.serialNumber
       /\ \A i \in 1..Len(pending) :
             (/\ CreateInsert(i)
              /\ ~IndexesOk(equipment \cup
                            {EquipmentDoc(pending[i].body, pending[i].suffix,
                                          pending[i].count)}))
             => (last'.code = 400 /\ equipment' = equipment)]_vars

(***************************************************************************)
(* The life of a record in the router application: creates, updates over   *)
(* status, location and isDeleted, soft deletes, and the read endpoints.   *)
(***************************************************************************)
LifeCreateBodies ==
    {[EmptyBody EXCEPT !.category = "Lap", !.status = "Damaged",
                       !.damageDescription = "cracked"]}

LifeUpdateBodies ==
    {[EmptyBody EXCEPT !.status = "In Stock"],
     [EmptyBody EXCEPT !.status = "Removed"],
     [EmptyBody EXCEPT !.location = "HQ"]}

\* the callers of this specification: the admin and the viewer
LifeTokens == {t \in issued : t.role \in {"Admin", "Viewer"}}

NextLife ==
    \/ \E tok \in LifeTokens, body \in LifeCreateBodies :
          RoutesCreateEquipment(tok, body, "00001")
    \/ \E tok \in LifeTokens, u \in Urls, body \in LifeUpdateBodies :
          RoutesUpdateEquipment(tok, u, body)
    \/ \E tok \in LifeTokens, u \in Urls :
          RoutesDeleteEquipment(tok, u)

SpecLife == InitRoutes /\ [][NextLife]_vars

\* the record with the id the request names, before and after the step
Target == CHOOSE d \in equipment : d._id = Oid(last'.id)
TargetAfter == CHOOSE d \in equipment' : d._id = Oid(last'.id)

\* a step that answers an update, or a soft delete, with success
UpdatedStep == RequestStep /\ last'.op = "update" /\ last'.code = 200
DeletedStep == RequestStep /\ last'.op = "delete" /\ last'.code = 200

\* no read endpoint that lists or counts live records shows a record whose
\* isDeleted is true
ReadsHideDeleted ==
    /\ \A d \in get_all_equipment : d.f.isDeleted # BTrue
    /\ \A d \in get_removed_equipment : d.f.isDeleted # BTrue
    /\ \A d \in equipment : d.f.isDeleted # BTrue => d \in get_all_equipment
    /\ get_category_count("Lap") =
          Cardinality({d \in equipment : d.f.category = "Lap" /\ d.f.isDeleted # BTrue})

\* C17: a soft delete keeps the record, with isDeleted true and its status
\* as it was; an update of the status leaves isDeleted as it was; and in
\* every state the list, the removed list and the per-category count leave
\* out exactly the records whose isDeleted is true.
C17_SoftDeleteHidesRecord ==
    [][/\ DeletedStep =>
             /\ Cardinality(equipment') = Cardinality(equipment)
             /\ TargetAfter.f.isDeleted = BTrue
             /\ TargetAfter.f.status = Target.f.status
             /\ TargetAfter \notin get_all_equipment'
       /\ (UpdatedStep /\ last'.body.isDeleted = Absent) =>
             TargetAfter.f.isDeleted = Target.f.isDeleted
       /\ ReadsHideDeleted']_vars

\* a record that is soft-deleted and not Removed is stored next to one that
\* is Removed and not deleted
C17_Witness ==
    /\ last.op = "delete" /\ last.code = 200
    /\ \E d \in equipment : d.f.isDeleted = BTrue /\ d.f.status # "Removed"
    /\ \E d \in equipment : d.f.isDeleted # BTrue /\ d.f.status = "Removed"
    /\ Cardinality(get_all_equipment) = 1

\* the number of records of a status that are not deleted
LiveOfStatus(st) ==
    Cardinality({d \in equipment : d.f.status = st /\ d.f.isDeleted # BTrue})

\* C18: in every state the summary gives totalAssets = the records whose
\* isDeleted is not true; inUse, inStock, damaged, eWaste = those of them
\* with that status; removed = the records with status Removed, deleted or
\* not.
C18_SummaryCounts ==
    LET sm == get_equipment_summary
    IN  /\ sm.totalAssets = Cardinality({d \in equipment : d.f.isDeleted # BTrue})
        /\ sm.inUse = LiveOfStatus("In Use")
        /\ sm.inStock = LiveOfStatus("In Stock")
        /\ sm.damaged = LiveOfStatus("Damaged")
        /\ sm.eWaste = LiveOfStatus("E-Waste")
        /\ sm.removed = Cardinality({d \in equipment : d.f.status = "Removed"})
        /\ sm.removed >= LiveOfStatus("Removed")

\* removed counts a soft-deleted record: it exceeds the live Removed records
C18_Witness ==
    /\ \E d \in equipment : d.f.status = "Removed" /\ d.f.isDeleted = BTrue
    /\ get_equipment_summary.removed > LiveOfStatus("Removed")
    /\ get_equipment_summary.totalAssets = 1
    /\ get_equipment_summary.inStock = 1

\* C19: an update that succeeds leaves every field the request does not
\* carry as it was, except damageDescription when the request carries a
\* status other than Damaged, which becomes null; it sets the fields the
\* request carries, refreshes updatedAt, keeps _id, assetId and createdAt,
\* and leaves every other record as it was.
C19_UpdateIsPartialMerge ==
    [][UpdatedStep =>
        /\ \A k \in EqFields \ {"damageDescription"} :
              TargetAfter.f[k] = IF last'.body[k] = Absent THEN Target.f[k]
                                 ELSE last'.body[k]
        /\ TargetAfter.f.damageDescription =
              IF last'.body.status \in Statuses \ {"Damaged"} THEN Null
              ELSE IF last'.body.damageDescription = Absent
                   THEN Target.f.damageDescription
                   ELSE last'.body.damageDescription
        /\ TargetAfter.updatedAt = now
        /\ TargetAfter._id = Target._id
        /\ TargetAfter.assetId = Target.assetId
        /\ TargetAfter.createdAt = Target.createdAt
        /\ equipment' \ {TargetAfter} = equipment \ {Target}]_vars

\* an update that carried only the location kept the category, the status
\* and the damage description of a Damaged record
C19_Witness ==
    /\ last.op = "update" /\ last.code = 200
    /\ last.body = [EmptyBody EXCEPT !.location = "HQ"]
    /\ last.result \in equipment
    /\ last.result.f.category = "Lap"
    /\ last.result.f.status = "Damaged"
    /\ last.result.f.damageDescription = "cracked"
    /\ last.result.f.location = "HQ"

\* C20: an update or a soft delete of the router application that is past
\* the gates and whose id is malformed or matches no record is answered 404
\* and leaves the collection as it was; one whose id matches a record is
\* never answered 404.
C20_NotFound ==
    [][(/\ RequestStep
        /\ last'.op \in {"update", "delete"}
        /\ last'.code \notin {401, 403})
       => IF \E d \in equipment : d._id = Oid(last'.id)
          THEN last'.code # 404
          ELSE last'.code = 404 /\ equipment' = equipment]_vars

(***************************************************************************)
(* More on the password reset, over the requests of SpecReset.             *)
(***************************************************************************)
\* a step that answers a forgot-password request
ForgotStep == last'.op = "forgot" /\ now' = now

\* the token is in the map and not past its expiry
Outstanding(t) == t \in DOMAIN reset_tokens /\ ~(reset_tokens[t].expiry < now)

\* C21: reset tokens are independent: a forgot-password leaves every token
\* in the map as it was; an outstanding token leaves the map only by the
\* reset that succeeds with it, which removes no other token; and a reset
\* that presents an outstanding token with its own email, for a user that
\* exists, succeeds.
C21_TokensIndependent ==
    [][/\ ForgotStep =>
             \A t \in DOMAIN reset_tokens :
                 t \in DOMAIN reset_tokens' /\ reset_tokens'[t] = reset_tokens[t]
       /\ \A t \in 1..MaxTokens :
             (Outstanding(t) /\ t \notin DOMAIN reset_tokens')
             => (ResetStep /\ last'.token = t /\ last'.code = 200)
       /\ (ResetStep /\ last'.code = 200) =>
             \A t \in DOMAIN reset_tokens \ {last'.token} :
                 t \in DOMAIN reset_tokens' /\ reset_tokens'[t] = reset_tokens[t]
       /\ (/\ ResetStep
           /\ Outstanding(last'.token)
           /\ reset_tokens[last'.token].email = last'.email
           /\ \E x \in users : x.email = last'.email)
          => last'.code = 200]_vars

\* two tokens were issued for one email; the first was used, and then the
\* second was used with success too
C21_Witness ==
    /\ now = 0
    /\ nextToken = 3
    /\ reset_tokens = <<>>
    /\ last.op = "reset" /\ last.code = 200 /\ last.token = 2
    /\ last.email = "ed@example.com"

(***************************************************************************)
(* The users of the router application: creates and updates that set the   *)
(* email, by the admin and by the viewer.                                  *)
(***************************************************************************)
UsersCreateEmails == {"new@example.com", "ed@example.com"}

UsersUpdateEmails == {Absent, "new@example.com", "ed@example.com", "vi@example.com"}

UsersTokens == {t \in issued : t.role \in {"Admin", "Viewer"}}

NextUsers ==
    \/ \E tok \in UsersTokens, email \in UsersCreateEmails :
          RoutesCreateUser(tok, email, "Viewer", "password123", "salt1")
    \/ \E tok \in UsersTokens, u \in 0..MaxUsers, email \in UsersUpdateEmails :
          RoutesUpdateUser(tok, u, email, Absent, Absent, "salt1")

SpecUsers == InitRoutes /\ [][NextUsers]_vars

\* the request passed the session and role checks
PastGate == last'.code \notin {401, 403}

\* C22: no two users share an email; a create with an email some user
\* holds, and an update to an email another user holds, are answered 400
\* and leave the users as they were.
C22_EmailUnique ==
    [][/\ \A x, y \in users' : x.email = y.email => x = y
       /\ (/\ last'.op = "create_user" /\ PastGate
           /\ \E x \in users : x.email = last'.email)
          => (last'.code = 400 /\ users' = users)
       /\ (/\ last'.op = "update_user" /\ PastGate
           /\ \E x \in users : x.email = last'.email /\ x._id # Oid(last'.id))
          => (last'.code = 400 /\ users' = users)]_vars

\* a user was created, and the update of that user to the editor's email
\* was refused
C22_Witness ==
    /\ last.op = "update_user" /\ last.code = 400
    /\ last.id = 4 /\ last.email = "ed@example.com"
    /\ \E x \in users : x._id = Oid(4) /\ x.email = "new@example.com"

(***************************************************************************)
(* Sessions that outlive their user: the admin and the editor keep calling *)
(* while users are deleted and roles are changed, and the clock runs.      *)
(***************************************************************************)
StatelessTokens == {t \in issued : t.role \in {"Admin", "Editor"}}

StatelessBodies == {[EmptyBody EXCEPT !.category = "Lap", !.status = "In Stock"]}

NextStateless ==
    \/ Tick
    \/ \E tok \in StatelessTokens, body \in StatelessBodies :
          RoutesCreateEquipment(tok, body, "00001")
    \/ \E tok \in StatelessTokens, body \in StatelessBodies :
          ServerCreateEquipment(tok, body, 1)
    \/ \E tok \in StatelessTokens :
          ListUsers(tok)
    \/ \E tok \in StatelessTokens, u \in {1, 2} :
          RoutesUpdateUser(tok, u, Absent, "Viewer", Absent, "salt1")
    \/ \E tok \in StatelessTokens :
          ServerUpdateUser(tok, 2)
    \/ \E tok \in StatelessTokens, u \in {1, 2} :
          RoutesDeleteUser(tok, u)
    \/ \E tok \in StatelessTokens :
          ServerDeleteUser(tok, 2)

SpecStateless == Init /\ [][NextStateless]_vars

\* the roles an operation is open to
RolesOf(op) == IF op = "create" THEN {"Admin", "Editor"} ELSE {"Admin"}

\* the user the session was issued to is gone, or has another role now
HolderChanged(tok) == \A x \in users : x._id # Oid(tok.id) \/ x.role # tok.role

\* C23: a session inside its lifetime is accepted whatever the users
\* collection holds, and with the role it was issued with: the request is
\* never answered 401, and it is answered 403 exactly when the issued role
\* is not among the operation's roles.
C23_SessionStateless ==
    [][(/\ RequestStep
        /\ last'.op \in {"create"} \cup UserOps
        /\ SessionFresh(last'.caller))
       => /\ last'.code # 401
          /\ (last'.code = 403) <=> (last'.caller.role \notin RolesOf(last'.op))]_vars

\* an hour after the editor was deleted, the editor's session created a
\* record
C23_Witness ==
    /\ app = "routes"
    /\ now = 1
    /\ last.op = "create" /\ last.code = 201
    /\ last.caller.role = "Editor"
    /\ HolderChanged(last.caller)
    /\ equipment # {}

(***************************************************************************)
(* Reset requests in flight together, in either application.               *)
(***************************************************************************)
NextResetRace ==
    \/ \E sent \in BOOLEAN : RoutesForgotPassword("ed@example.com", sent)
    \/ ServerForgotPassword("ed@example.com")
    \/ \E email \in ResetEmails, t \in 1..MaxTokens, pw \in NewPasswords :
          ResetVerify(email, t, pw, "salt1")
    \/ \E i \in 1..MaxPending : ResetFind(i)
    \/ \E i \in 1..MaxPending : ResetWrite(i)
    \/ \E i \in 1..MaxPending : ResetConsume(i)

SpecResetRace == Init /\ [][NextResetRace]_vars

\* the i-th request in flight writes its password hash in this step
WritesHash(i) ==
    /\ i \in 1..Len(pending)
    /\ Len(pending') = Len(pending)
    /\ pending[i].pc = "found" /\ pending'[i].pc = "written"

\* C24: of the reset requests in flight with one token, at most one writes
\* a password hash, and none is answered with an unhandled error (500); the
\* others are answered 400.
C24_TokenConsumedOnce ==
    [][/\ \A i, j \in 1..MaxPending :
             (WritesHash(i) /\ j # i /\ j \in 1..Len(pending)
              /\ pending[j].token = pending[i].token)
             => pending[j].pc # "written"
       /\ last'.op = "reset" => last'.code # 500]_vars

(***************************************************************************)
(* Updates of server.py in flight together: the editor assigns a stored    *)
(* record, or moves it.                                                    *)
(***************************************************************************)
NotifyRaceCreateBodies == {[EmptyBody EXCEPT !.category = "Lap", !.status = "In Stock"]}

NotifyRaceUpdateBodies ==
    {[EmptyBody EXCEPT !.status = "In Use", !.assigneeName = "A", !.employeeEmail = "a@x.com"],
     [EmptyBody EXCEPT !.location = "HQ"]}

NextNotifyRace ==
    \/ \E tok \in NotifyTokens, body \in NotifyRaceCreateBodies :
          ServerCreateEquipment(tok, body, 1)
    \/ \E tok \in NotifyTokens, u \in NotifyUrls, body \in NotifyRaceUpdateBodies :
          UpdateRead(tok, u, body)
    \/ \E i \in 1..MaxPending : UpdateWrite(i)
    \/ \E i \in 1..MaxPending : UpdateRespond(i)
    \/ \E i \in 1..MaxBg, outcome \in BgOutcomes :
          bg_task(i, outcome)

SpecNotifyRace == InitNotify /\ [][NextNotifyRace]_vars

\* a step that answers an update request that was in flight
RespondStep == Len(pending') < Len(pending) /\ last'.op = "update" /\ last'.code = 200

\* C25: two updates with one body for one record, both of which read the
\* record before it was In Use, do not both fire the notifier: when the
\* answer before this one fired for the same body and record, this one fires
\* only if it read another previous record.
C25_FiresOncePerEdge ==
    [][(/\ RespondStep
        /\ last'.fired
        /\ last.op = "update" /\ last.code = 200 /\ last.fired
        /\ last'.id = last.id /\ last'.body = last.body
        /\ Get(last'.orig.f.status) # "In Use")
       => last'.orig # last.orig]_vars

(***************************************************************************)
(* The soft-delete flag in the router application: EquipmentUpdate carries *)
(* isDeleted, so an update may name it.                                    *)
(***************************************************************************)
FlagCreateBodies == {[EmptyBody EXCEPT !.category = "Lap", !.status = "In Stock"]}

FlagUpdateBodies ==
    {[EmptyBody EXCEPT !.isDeleted = BFalse],
     [EmptyBody EXCEPT !.isDeleted = BTrue],
     [EmptyBody EXCEPT !.location = "HQ"]}

FlagTokens == {t \in issued : t.role \in {"Admin", "Editor"}}

NextFlag ==
    \/ \E tok \in FlagTokens, body \in FlagCreateBodies :
          RoutesCreateEquipment(tok, body, "00001")
    \/ \E tok \in FlagTokens, u \in Urls, body \in FlagUpdateBodies :
          RoutesUpdateEquipment(tok, u, body)
    \/ \E tok \in FlagTokens, u \in Urls :
          RoutesDeleteEquipment(tok, u)

SpecFlag == InitRoutes /\ [][NextFlag]_vars

\* C26: a record whose isDeleted is true keeps it true in every step, and
\* is not in the equipment list after the step.
C26_DeletedStaysDeleted ==
    [][\A d \in equipment, e \in equipment' :
          (e._id = d._id /\ d.f.isDeleted = BTrue)
          => (e.f.isDeleted = BTrue /\ e \notin get_all_equipment')]_vars

(***************************************************************************)
(* The administrators, over the requests of SpecAccess.                    *)
(***************************************************************************)
\* C27: the users collection always holds a user with role Admin.
C27_AdminRemains == \E x \in users : x.role = "Admin"

(***************************************************************************)
(* The whole system.                                                       *)
(***************************************************************************)
Next == NextDamage \/ NextSerial \/ NextNotify \/ NextReset \/ NextAccess
        \/ NextSession \/ NextTag \/ NextRace \/ NextLife
        \/ NextUsers \/ NextStateless \/ NextResetRace
        \/ NextNotifyRace \/ NextFlag

Spec == Init /\ [][Next]_vars

====
